---- MODULE Spec2Model ----
(***************************************************************************)
(* The two diagnostic scripts of scripts/debug: test-hap-pairing.py (four  *)
(* probes, a three-way verdict, an exit status) and test-mdns.py (a port   *)
(* probe, then the platform's discovery browser).  One behaviour is one    *)
(* run of one script.  Every step draws what the outside world does        *)
(* (connection results, HTTP answers, browser output, faults, a user       *)
(* interrupt) from a small set and applies the code of the script to it.   *)
(***************************************************************************)
EXTENDS Integers, Sequences, FiniteSets, TLC

VARIABLES
    script,        \* which script runs
    platform,      \* sys.platform of the host
    pc,            \* the program point of the run
    input,         \* what the outside world answered to the latest step
    results,       \* run_all_tests: the results dict
    recorded,      \* run_all_tests: the names whose result a probe has returned
    calls,         \* the probe functions invoked so far, in order
    verdict,       \* run_all_tests: the branch of the final if/elif/else
    success,       \* main: the local `success`
    direct_port,   \* test-mdns.py main: what test_direct_port returned
    exitStatus,    \* {} while running, {n} once the process exited with status n
    fault,         \* the exception that left a probe function or main's body
    openSockets,   \* sockets created and not closed
    runningProcs,  \* subprocesses spawned and not sent terminate()/kill()
    output,        \* the local `output` of the dns-sd probes
    todo,          \* test_mdns_advertisement: lines of output not yet scanned
    launched,      \* the discovery browsers a probe tried to launch
    portConfirmed  \* a pattern instance was seen reachable at port 51826

vars == <<script, platform, pc, input, results, recorded, calls, verdict,
          success, direct_port, exitStatus, fault, openSockets,
          runningProcs, output, todo, launched, portConfirmed>>

\* The longest browser output the model draws, in lines.
MaxLines == 2

PAIRING == "test-hap-pairing.py"
MDNS == "test-mdns.py"

ProbeNames == <<"TCP Connection", "HAP Discovery", "Web API", "mDNS Advertisement">>

ProbeNameSet == {ProbeNames[i] : i \in 1..Len(ProbeNames)}

-----------------------------------------------------------------------------
(* Python's exception classes, as far as the handlers tell them apart.     *)

\* `except Exception` catches everything but the BaseException-only classes.
IsException(e) == e \notin {"none", "KeyboardInterrupt", "SystemExit"}

Return(v) == [kind |-> "return", value |-> v, exc |-> "none"]

Raise(e) == [kind |-> "raise", value |-> FALSE, exc |-> e]

-----------------------------------------------------------------------------
(* test_hap_tcp_connection                                                 *)

\* The world of the TCP probe: the stage at which a call raises (if any)
\* and the exception, what connect_ex returns, what recv returns.
TcpEnv ==
    [stage : {"none"}, exc : {"none"}, errno : {111}, reply : {""}]
    \cup [stage : {"none"}, exc : {"none"}, errno : {0},
          reply : {"", "garbage", "HTTP/1.1"}]
    \cup [stage : {"socket", "connect", "send", "recv"},
          exc   : {"OSError", "socket.timeout", "KeyboardInterrupt"},
          errno : {0}, reply : {""}]

\* The inner try of lines 169-189: send, recv, the checks on the response,
\* `except socket.timeout`, and the finally that closes the socket.
tcp_inner(env) ==
    IF env.stage \in {"send", "recv"}
    THEN IF env.exc = "socket.timeout" THEN Return(FALSE) ELSE Raise(env.exc)
    ELSE IF env.reply = "" THEN Return(FALSE)
         ELSE Return(env.reply = "HTTP/1.1")

\* The whole function: its outcome and the state it leaves its socket in
\* ("none": never created, "closed": sock.close() ran, "unclosed": it did not).
test_hap_tcp_connection(env) ==
    LET body ==
            IF env.stage = "socket" THEN [r |-> Raise(env.exc), sock |-> "none"]
            ELSE IF env.stage = "connect" THEN [r |-> Raise(env.exc), sock |-> "unclosed"]
            ELSE IF env.errno # 0 THEN [r |-> Return(FALSE), sock |-> "unclosed"]
            ELSE [r |-> tcp_inner(env), sock |-> "closed"]
    IN  IF body.r.kind = "raise" /\ IsException(body.r.exc)
        THEN [r |-> Return(FALSE), sock |-> body.sock]
        ELSE body

-----------------------------------------------------------------------------
(* test_hap_discovery_endpoint                                             *)

HttpStatuses == {200, 204, 304, 400, 401, 403, 404, 470, 500}

HapEnv ==
    [kind : {"response"}, status : HttpStatuses]
    \cup [kind : {"URLError", "OSError", "KeyboardInterrupt"}, status : {0}]

\* urllib.request.urlopen: a 2xx answer is returned, any other status is
\* raised as HTTPError, a connection fault as URLError.
urlopen(env) ==
    IF env.kind = "response"
    THEN IF 200 <= env.status /\ env.status < 300
         THEN Return(TRUE)
         ELSE Raise("HTTPError")
    ELSE Raise(env.kind)

test_hap_discovery_endpoint_401only(env) ==
    LET r == urlopen(env)
    IN  IF r.kind = "return" THEN Return(FALSE)
        ELSE IF r.exc = "HTTPError" THEN Return(env.status \in {401})
        ELSE IF IsException(r.exc) THEN Return(FALSE)
        ELSE r

test_hap_discovery_endpoint(env) ==
    LET r == urlopen(env)
    IN  IF r.kind = "return" THEN Return(FALSE)
        ELSE IF r.exc = "HTTPError" THEN Return(env.status \in {401, 470})
        ELSE IF r.exc = "URLError" THEN Return(FALSE)
        ELSE IF IsException(r.exc) THEN Return(FALSE)
        ELSE r

-----------------------------------------------------------------------------
(* test_web_api                                                            *)

FieldNames == {"qrCode", "pairingCode", "setupCode", "pinCode"}

\* What the companion endpoint answers.  A decodable body is any JSON value:
\* an object (names: its keys), an array (names: its string elements), a
\* string (names: the field names occurring in it), or a number/null/bool.
WebEnv ==
    [kind : {"object", "array", "string"}, names : SUBSET FieldNames]
    \cup [kind : {"scalar", "undecodable", "URLError", "HTTPError",
                  "KeyboardInterrupt"}, names : {{}}]

\* Python's `x in data` on the value json.loads returned.
PyIn(x, data) ==
    IF data.kind \in {"object", "array", "string"}
    THEN Return(x \in data.names)
    ELSE Raise("TypeError")

test_web_api(env) ==
    LET body ==
            IF env.kind \in {"URLError", "HTTPError", "KeyboardInterrupt"}
            THEN Raise(env.kind)
            ELSE IF env.kind = "undecodable" THEN Raise("JSONDecodeError")
            ELSE LET qr == PyIn("qrCode", env)
                 IN  IF qr.kind = "raise" THEN qr
                     ELSE Return(qr.value
                                 /\ (PyIn("pairingCode", env).value
                                     \/ PyIn("setupCode", env).value
                                     \/ PyIn("pinCode", env).value))
    IN  IF body.kind = "raise" /\ IsException(body.exc) THEN Return(FALSE)
        ELSE body

-----------------------------------------------------------------------------
(* Browser output.  A text is a sequence of lines; a line is the set of    *)
(* the substrings (and the one regex) the scripts search for that occur in *)
(* it.                                                                     *)

\* "Browsing for _hap._tcp", or the row of another accessory
HeaderLine == {"_hap._tcp"}

\* the row of an instance "SmartThings Bridge 1A2B"
BridgeLine == {"_hap._tcp", "SmartThings", "SmartThings Bridge", "SmartThings Bridge \\w+"}

\* the row of an instance named exactly "SmartThings Bridge"
BareBridgeLine == {"_hap._tcp", "SmartThings", "SmartThings Bridge"}

NoiseLine == {}

BrowseLines == {HeaderLine, BridgeLine, BareBridgeLine, NoiseLine}

Texts(lines) == UNION {[1..n -> lines] : n \in 0..MaxLines}

BrowseOutputs == Texts(BrowseLines)

LookupLine == {"_hap._tcp", "SmartThings"}

ReachLine == {"_hap._tcp", "SmartThings", "can be reached at", "51826", ":51826"}

WrongPortLine == {"_hap._tcp", "SmartThings", "can be reached at"}

ResolveOutputs == {<<>>, <<LookupLine>>, <<LookupLine, ReachLine>>,
                   <<LookupLine, WrongPortLine>>}

QueryOutputs == {<<>>, <<{"SmartThings"}>>, <<{"SmartThings", "51826"}>>}

\* Python's `s in text`
In(s, text) == \E i \in 1..Len(text) : s \in text[i]

Unbound == [bound |-> FALSE, text |-> <<>>]

Bound(text) == [bound |-> TRUE, text |-> text]

\* The world of one browser invocation.
ProcEnv(outs) ==
    [launch : {"ok"}, sleep : {"ok"}, communicate : {"ok"}, out : outs]
    \cup [launch : {"ok"}, sleep : {"ok"}, communicate : {"TimeoutExpired"},
          out : {<<>>}]
    \cup [launch : {"ok"}, sleep : {"KeyboardInterrupt"}, communicate : {"ok"},
          out : {<<>>}]
    \cup [launch : {"FileNotFoundError", "PermissionError"}, sleep : {"ok"},
          communicate : {"ok"}, out : {<<>>}]

\* Popen; time.sleep; proc.terminate(); proc.communicate(timeout=1).
\* proc: "none" (never spawned), "running" (spawned, terminate() not sent),
\* "terminated" (terminate() sent).
popen_terminate_communicate(env) ==
    IF env.launch # "ok" THEN [exc |-> env.launch, proc |-> "none"]
    ELSE IF env.sleep # "ok" THEN [exc |-> env.sleep, proc |-> "running"]
    ELSE IF env.communicate # "ok" THEN [exc |-> env.communicate, proc |-> "terminated"]
    ELSE [exc |-> "none", proc |-> "terminated"]

-----------------------------------------------------------------------------
(* test-hap-pairing.py: main and run_all_tests                             *)

Str(b) == IF b THEN "True" ELSE "False"

NoFault == [exc |-> "none", where |-> "none"]

\* main's try/except around an exception in flight (code: the argument of
\* a SystemExit).  SystemExit matches neither handler and keeps its code.
main_exit_bare_except(exc, code) ==
    IF exc = "KeyboardInterrupt" THEN 130 ELSE 1

main_exit(exc, code) ==
    IF exc = "KeyboardInterrupt" THEN 130
    ELSE IF IsException(exc) THEN 1
    ELSE code

\* run_all_tests: the statement that follows the call of a probe
\* (value: what the probe returned).
after_probe_short_circuit(name, value) ==
    IF ~value THEN "summary"
    ELSE CASE name = "TCP Connection" -> "hap"
           [] name = "HAP Discovery" -> "web"
           [] name = "Web API" -> "mdns"
           [] OTHER -> "summary"

after_probe(name, value) ==
    CASE name = "TCP Connection" -> "hap"
      [] name = "HAP Discovery" -> "web"
      [] name = "Web API" -> "mdns"
      [] name = "mDNS Advertisement" -> "summary"

all_passed(res) == \A n \in DOMAIN res : res[n]

critical_passed_either(res) == res["TCP Connection"] \/ res["mDNS Advertisement"]

critical_passed(res) == res["TCP Connection"] /\ res["mDNS Advertisement"]

\* The branch of the final if/elif/else, named after what it logs.
overall(res) ==
    IF all_passed(res) THEN "pass"
    ELSE IF critical_passed(res) THEN "pass-with-warnings"
    ELSE "fail"

\* What each branch returns.
overall_return(v) == v \in {"pass", "pass-with-warnings"}

\* An exception leaves main's try body: a handler (or none) turns it into
\* the exit status.
MainRaises(exc, where) ==
    /\ pc' = "done"
    /\ exitStatus' = {main_exit(exc, 0)}
    /\ fault' = [exc |-> exc, where |-> where]
    /\ UNCHANGED <<results, recorded, verdict, success>>

\* A probe of run_all_tests ends: its value is stored in results, or its
\* exception propagates through run_all_tests into main.
ProbeEnds(name, r) ==
    IF r.kind = "return"
    THEN /\ results' = [results EXCEPT ![name] = r.value]
         /\ recorded' = recorded \cup {name}
         /\ pc' = after_probe(name, r.value)
         /\ UNCHANGED <<verdict, success, exitStatus, fault>>
    ELSE MainRaises(r.exc, name)

\* main, lines 253-256: the log line and time.sleep(2).
MainWait ==
    /\ script = PAIRING /\ pc = "main"
    /\ \E env \in {"ok", "KeyboardInterrupt", "OSError"} :
         /\ input' = [probe |-> "main", env |-> env]
         /\ IF env = "ok"
            THEN /\ pc' = "tcp"
                 /\ UNCHANGED <<results, recorded, verdict, success, exitStatus, fault>>
            ELSE MainRaises(env, "main")
    /\ UNCHANGED <<script, platform, calls, direct_port, openSockets,
                   runningProcs, output, todo, launched, portConfirmed>>

\* finalized: whether the interpreter has run the finalizer of a socket the
\* function dropped without closing it (CPython does at once, others later).
TcpProbe ==
    /\ script = PAIRING /\ pc = "tcp"
    /\ \E env \in TcpEnv, finalized \in BOOLEAN :
         LET o == test_hap_tcp_connection(env)
         IN  /\ input' = [probe |-> "TCP Connection", env |-> env]
             /\ calls' = Append(calls, "TCP Connection")
             /\ openSockets' = IF o.sock = "unclosed" /\ ~finalized
                               THEN openSockets + 1 ELSE openSockets
             /\ ProbeEnds("TCP Connection", o.r)
    /\ UNCHANGED <<script, platform, direct_port, runningProcs, output, todo,
                   launched, portConfirmed>>

HapDiscoveryProbe ==
    /\ script = PAIRING /\ pc = "hap"
    /\ \E env \in HapEnv :
         /\ input' = [probe |-> "HAP Discovery", env |-> env]
         /\ calls' = Append(calls, "HAP Discovery")
         /\ ProbeEnds("HAP Discovery", test_hap_discovery_endpoint(env))
    /\ UNCHANGED <<script, platform, direct_port, openSockets, runningProcs,
                   output, todo, launched, portConfirmed>>

WebApiProbe ==
    /\ script = PAIRING /\ pc = "web"
    /\ \E env \in WebEnv :
         /\ input' = [probe |-> "Web API", env |-> env]
         /\ calls' = Append(calls, "Web API")
         /\ ProbeEnds("Web API", test_web_api(env))
    /\ UNCHANGED <<script, platform, direct_port, openSockets, runningProcs,
                   output, todo, launched, portConfirmed>>

\* test_mdns_advertisement, lines 92-97: the handlers around the body.
\* Line 94 reads the local `output`, bound only once the first
\* communicate() has returned.
mdns_advertisement_handlers(exc, out) ==
    IF exc = "TimeoutExpired"
    THEN IF out.bound THEN Return(In("_hap._tcp", out.text))
         ELSE Raise("UnboundLocalError")
    ELSE IF IsException(exc) THEN Return(FALSE)
    ELSE Raise(exc)

\* test_mdns_advertisement, lines 43-56: dns-sd -B and the test on its output.
MdnsBrowse ==
    /\ script = PAIRING /\ pc = "mdns"
    /\ \E env \in ProcEnv(BrowseOutputs) :
         LET p == popen_terminate_communicate(env)
         IN  /\ input' = [probe |-> "mDNS Advertisement", env |-> env]
             /\ calls' = Append(calls, "mDNS Advertisement")
             /\ launched' = launched \cup {"dns-sd"}
             /\ runningProcs' = IF p.proc = "running"
                                THEN runningProcs + 1 ELSE runningProcs
             /\ IF p.exc = "none"
                THEN /\ output' = Bound(env.out)
                     /\ IF In("_hap._tcp", env.out)
                        THEN /\ pc' = "mdns_loop"
                             /\ todo' = env.out
                             /\ UNCHANGED <<results, recorded, verdict, success,
                                            exitStatus, fault>>
                        ELSE /\ todo' = todo
                             /\ ProbeEnds("mDNS Advertisement", Return(FALSE))
                ELSE /\ UNCHANGED <<output, todo>>
                     /\ ProbeEnds("mDNS Advertisement",
                                  mdns_advertisement_handlers(p.exc, output))
    /\ UNCHANGED <<script, platform, direct_port, openSockets, portConfirmed>>

\* test_mdns_advertisement, lines 62-87: one turn of the loop over the lines
\* (dns-sd -L for a line that names a bridge instance), or its end.
MdnsLoop ==
    /\ script = PAIRING /\ pc = "mdns_loop"
    /\ \E env \in ProcEnv(ResolveOutputs) :
         LET p == popen_terminate_communicate(env)
             resolves == /\ todo # <<>>
                         /\ "SmartThings Bridge" \in Head(todo)
                         /\ "SmartThings Bridge \\w+" \in Head(todo)
             seen == resolves /\ p.exc = "none"
         IN  /\ input' = [probe |-> "mDNS Advertisement",
                          env |-> IF resolves THEN env ELSE [launch |-> "none"]]
             /\ launched' = IF resolves THEN launched \cup {"dns-sd"} ELSE launched
             /\ runningProcs' = IF resolves /\ p.proc = "running"
                                THEN runningProcs + 1 ELSE runningProcs
             /\ portConfirmed' = (portConfirmed
                                  \/ (seen /\ In("can be reached at", env.out)
                                           /\ In(":51826", env.out)))
             /\ IF todo = <<>>
                THEN /\ todo' = todo
                     /\ ProbeEnds("mDNS Advertisement", Return(FALSE))
                ELSE IF ~resolves
                THEN /\ todo' = Tail(todo)
                     /\ UNCHANGED <<pc, results, recorded, verdict, success,
                                    exitStatus, fault>>
                ELSE IF p.exc # "none"
                THEN /\ todo' = todo
                     /\ ProbeEnds("mDNS Advertisement",
                                  mdns_advertisement_handlers(p.exc, output))
                ELSE IF In("can be reached at", env.out) /\ In("51826", env.out)
                THEN /\ todo' = todo
                     /\ ProbeEnds("mDNS Advertisement", Return(TRUE))
                ELSE /\ todo' = Tail(todo)
                     /\ UNCHANGED <<pc, results, recorded, verdict, success,
                                    exitStatus, fault>>
    /\ UNCHANGED <<script, platform, calls, direct_port, openSockets, output>>

\* run_all_tests, lines 227-249, and main, line 262: the summary, the
\* decision, and sys.exit with the status of the decision.
Decide ==
    /\ script = PAIRING /\ pc = "summary"
    /\ \E env \in {"ok", "KeyboardInterrupt"} :
         /\ input' = [probe |-> "summary", env |-> env]
         /\ IF env = "ok"
            THEN LET v == overall(results)
                 IN  /\ verdict' = v
                     /\ success' = Str(overall_return(v))
                     /\ exitStatus' = {main_exit("SystemExit",
                                                 IF overall_return(v) THEN 0 ELSE 1)}
                     /\ pc' = "done"
                     /\ UNCHANGED <<results, recorded, fault>>
            ELSE MainRaises(env, "run_all_tests")
    /\ UNCHANGED <<script, platform, calls, direct_port, openSockets,
                   runningProcs, output, todo, launched, portConfirmed>>

-----------------------------------------------------------------------------
(* test-mdns.py                                                            *)

DirectPortEnv ==
    [stage : {"none"}, exc : {"none"}, errno : {0, 111}]
    \cup [stage : {"socket", "connect"}, exc : {"OSError", "KeyboardInterrupt"},
          errno : {0}]

test_direct_port(env) ==
    LET body ==
            IF env.stage = "socket" THEN [r |-> Raise(env.exc), sock |-> "none"]
            ELSE IF env.stage = "connect" THEN [r |-> Raise(env.exc), sock |-> "unclosed"]
            ELSE [r |-> Return(env.errno = 0), sock |-> "closed"]
    IN  IF body.r.kind = "raise" /\ IsException(body.r.exc)
        THEN [r |-> Return(FALSE), sock |-> body.sock]
        ELSE body

\* The world of subprocess.run(["avahi-browse", ...], timeout=5).
AvahiEnv ==
    [launch : {"ok"}, run : {"ok"}, out : BrowseOutputs]
    \cup [launch : {"ok"}, run : {"TimeoutExpired", "KeyboardInterrupt"},
          out : {<<>>}]
    \cup [launch : {"FileNotFoundError", "PermissionError"}, run : {"ok"},
          out : {<<>>}]

test_mdns_with_avahi(env) ==
    LET exc == IF env.launch # "ok" THEN env.launch
               ELSE IF env.run # "ok" THEN env.run
               ELSE "none"
    IN  IF exc = "none" THEN Return(In("SmartThings", env.out))
        ELSE IF exc \in {"TimeoutExpired", "FileNotFoundError"} THEN Return(FALSE)
        ELSE Raise(exc)

\* test_mdns_with_dns_sd, lines 82-90: the handlers around the body, and
\* the return False they fall through to.
dns_sd_handlers(exc, out) ==
    IF exc = "TimeoutExpired"
    THEN IF out.bound
         THEN Return(out.text # <<>>
                     /\ (In("SmartThings", out.text) \/ In("51826", out.text)))
         ELSE Raise("UnboundLocalError")
    ELSE IF IsException(exc) THEN Return(FALSE)
    ELSE Raise(exc)

\* main, lines 118-121: the strategy of the host platform.
mdns_strategy(p) == IF p = "darwin" THEN "dnssd_browse" ELSE "avahi"

\* main, lines 113-115: the statement that follows test_direct_port().
after_direct_port_no_check(ok, p) == mdns_strategy(p)

after_direct_port(ok, p) == IF ~ok THEN "done" ELSE mdns_strategy(p)

\* An exception no code of test-mdns.py catches ends the process: the
\* interpreter prints the traceback and exits with status 1; on an
\* uncaught KeyboardInterrupt, interpreters from 3.8 on instead kill the
\* process with SIGINT, which leaves no exit status.
Uncaught(exc, where) ==
    /\ fault' = [exc |-> exc, where |-> where]
    /\ \E sigint \in BOOLEAN :
         IF exc = "KeyboardInterrupt" /\ sigint
         THEN pc' = "killed" /\ exitStatus' = {}
         ELSE pc' = "done" /\ exitStatus' = {1}
    /\ UNCHANGED success

\* An advertisement strategy of test-mdns.py ends: main, lines 123-128.
StrategyEnds(name, r) ==
    IF r.kind = "return"
    THEN /\ success' = Str(r.value)
         /\ exitStatus' = {IF r.value THEN 0 ELSE 1}
         /\ pc' = "done"
         /\ UNCHANGED fault
    ELSE Uncaught(r.exc, name)

DirectPort ==
    /\ script = MDNS /\ pc = "direct_port"
    /\ \E env \in DirectPortEnv, finalized \in BOOLEAN :
         LET o == test_direct_port(env)
         IN  /\ input' = [probe |-> "test_direct_port", env |-> env]
             /\ calls' = Append(calls, "test_direct_port")
             /\ openSockets' = IF o.sock = "unclosed" /\ ~finalized
                               THEN openSockets + 1 ELSE openSockets
             /\ IF o.r.kind = "return"
                THEN /\ direct_port' = Str(o.r.value)
                     /\ pc' = after_direct_port(o.r.value, platform)
                     /\ exitStatus' = IF after_direct_port(o.r.value, platform) = "done"
                                      THEN {1} ELSE {}
                     /\ UNCHANGED <<fault, success>>
                ELSE /\ UNCHANGED direct_port
                     /\ Uncaught(o.r.exc, "test_direct_port")
    /\ UNCHANGED <<script, platform, results, recorded, verdict, runningProcs,
                   output, todo, launched, portConfirmed>>

Avahi ==
    /\ script = MDNS /\ pc = "avahi"
    /\ \E env \in AvahiEnv :
         /\ input' = [probe |-> "test_mdns_with_avahi", env |-> env]
         /\ calls' = Append(calls, "test_mdns_with_avahi")
         /\ launched' = launched \cup {"avahi-browse"}
         /\ StrategyEnds("test_mdns_with_avahi", test_mdns_with_avahi(env))
    /\ UNCHANGED <<script, platform, results, recorded, verdict, direct_port,
                   openSockets, runningProcs, output, todo, portConfirmed>>

\* test_mdns_with_dns_sd, lines 33-47: dns-sd -B.
DnsSdBrowse ==
    /\ script = MDNS /\ pc = "dnssd_browse"
    /\ \E env \in ProcEnv(BrowseOutputs) :
         LET p == popen_terminate_communicate(env)
         IN  /\ input' = [probe |-> "test_mdns_with_dns_sd", env |-> env]
             /\ calls' = Append(calls, "test_mdns_with_dns_sd")
             /\ launched' = launched \cup {"dns-sd"}
             /\ runningProcs' = IF p.proc = "running"
                                THEN runningProcs + 1 ELSE runningProcs
             /\ IF p.exc # "none"
                THEN /\ UNCHANGED output
                     /\ StrategyEnds("test_mdns_with_dns_sd", dns_sd_handlers(p.exc, output))
                ELSE /\ output' = Bound(env.out)
                     /\ IF In("_hap._tcp", env.out)
                        THEN /\ pc' = "dnssd_lookup"
                             /\ UNCHANGED <<success, exitStatus, fault>>
                        ELSE StrategyEnds("test_mdns_with_dns_sd", Return(FALSE))
    /\ UNCHANGED <<script, platform, results, recorded, verdict, direct_port,
                   openSockets, todo, portConfirmed>>

\* test_mdns_with_dns_sd, lines 49-65: dns-sd -L "SmartThings Bridge".
DnsSdLookup ==
    /\ script = MDNS /\ pc = "dnssd_lookup"
    /\ \E env \in ProcEnv(ResolveOutputs) :
         LET p == popen_terminate_communicate(env)
         IN  /\ input' = [probe |-> "test_mdns_with_dns_sd", env |-> env]
             /\ runningProcs' = IF p.proc = "running"
                                THEN runningProcs + 1 ELSE runningProcs
             /\ IF p.exc # "none"
                THEN /\ UNCHANGED <<output, portConfirmed>>
                     /\ StrategyEnds("test_mdns_with_dns_sd", dns_sd_handlers(p.exc, output))
                ELSE /\ output' = Bound(env.out)
                     /\ portConfirmed' = (In("can be reached at", env.out)
                                          /\ In(":51826", env.out))
                     /\ IF In("can be reached at", env.out)
                           /\ (In(":51826", env.out) \/ In("51826.local", env.out))
                        THEN StrategyEnds("test_mdns_with_dns_sd", Return(TRUE))
                        ELSE /\ pc' = "dnssd_query"
                             /\ UNCHANGED <<success, exitStatus, fault>>
    /\ UNCHANGED <<script, platform, results, recorded, calls, verdict,
                   direct_port, openSockets, todo, launched>>

\* test_mdns_with_dns_sd, lines 67-80 and 90: dns-sd -q ... SRV.
DnsSdQuery ==
    /\ script = MDNS /\ pc = "dnssd_query"
    /\ \E env \in ProcEnv(QueryOutputs) :
         LET p == popen_terminate_communicate(env)
         IN  /\ input' = [probe |-> "test_mdns_with_dns_sd", env |-> env]
             /\ runningProcs' = IF p.proc = "running"
                                THEN runningProcs + 1 ELSE runningProcs
             /\ IF p.exc # "none"
                THEN /\ UNCHANGED output
                     /\ StrategyEnds("test_mdns_with_dns_sd", dns_sd_handlers(p.exc, output))
                ELSE /\ output' = Bound(env.out)
                     /\ StrategyEnds("test_mdns_with_dns_sd", Return(In("51826", env.out)))
    /\ UNCHANGED <<script, platform, results, recorded, calls, verdict,
                   direct_port, openSockets, todo, launched, portConfirmed>>

-----------------------------------------------------------------------------

InitOf(s) ==
    /\ script = s
    /\ platform \in {"darwin", "linux"}
    /\ pc = IF script = PAIRING THEN "main" ELSE "direct_port"
    /\ input = [probe |-> "none", env |-> "none"]
    /\ results = [n \in ProbeNameSet |-> FALSE]
    /\ recorded = {}
    /\ calls = <<>>
    /\ verdict = "none"
    /\ success = "unset"
    /\ direct_port = "unset"
    /\ exitStatus = {}
    /\ fault = NoFault
    /\ openSockets = 0
    /\ runningProcs = 0
    /\ output = Unbound
    /\ todo = <<>>
    /\ launched = {}
    /\ portConfirmed = FALSE

Init == \E s \in {PAIRING, MDNS} : InitOf(s)

InitPairing == InitOf(PAIRING)

InitMdns == InitOf(MDNS)

NextPairing ==
    \/ MainWait
    \/ TcpProbe
    \/ HapDiscoveryProbe
    \/ WebApiProbe
    \/ MdnsBrowse
    \/ MdnsLoop
    \/ Decide

NextMdns ==
    \/ DirectPort
    \/ Avahi
    \/ DnsSdBrowse
    \/ DnsSdLookup
    \/ DnsSdQuery

Next == NextPairing \/ NextMdns

\* A run of either script.
Spec == Init /\ [][Next]_vars

\* A run of test-hap-pairing.py.
SpecPairing == InitPairing /\ [][NextPairing]_vars

\* A run of test-mdns.py.
SpecMdns == InitMdns /\ [][NextMdns]_vars

-----------------------------------------------------------------------------
(* Properties                                                              *)

IsPrefix(s, t) == Len(s) <= Len(t) /\ \A i \in 1..Len(s) : s[i] = t[i]

ProbeFunctions ==
    ProbeNameSet \cup {"test_direct_port", "test_mdns_with_avahi", "test_mdns_with_dns_sd"}

\* A dns-sd probe is between two of its browser invocations.
InsideProbe == pc \in {"mdns_loop", "dnssd_lookup", "dnssd_query"}

PlatformBrowser == IF platform = "darwin" THEN "dns-sd" ELSE "avahi-browse"

\* C1: once run_all_tests has decided, the verdict is "pass" when all four
\* results are true, else "pass-with-warnings" when TCP Connection and mDNS
\* Advertisement are both true, else "fail"; a false critical result gives
\* "fail" whatever the others are; True is returned exactly for "pass" and
\* "pass-with-warnings".
C1_VerdictRule ==
    (script = PAIRING /\ verdict # "none") =>
        /\ verdict = IF \A n \in ProbeNameSet : results[n] THEN "pass"
                     ELSE IF results["TCP Connection"] /\ results["mDNS Advertisement"]
                          THEN "pass-with-warnings"
                          ELSE "fail"
        /\ (~results["TCP Connection"] \/ ~results["mDNS Advertisement"]
                => verdict = "fail")
        /\ success \in {"True", "False"}
        /\ (success = "True" <=> verdict \in {"pass", "pass-with-warnings"})

\* C1 witness: a degraded pass, both secondary probes having failed.
C1_Witness ==
    /\ verdict = "pass-with-warnings"
    /\ ~results["HAP Discovery"] /\ ~results["Web API"]
    /\ success = "True"

\* C2: test-hap-pairing.py exits with 0, 1 or 130 and with nothing before it
\* is done: 130 exactly when a user interrupt ended the run (in the wait, in
\* a probe, in the summary), 0 for pass and pass-with-warnings, 1 for fail
\* and for any other exception that reached main; the status of the verdict
\* is the one sys.exit was given.
C2_ExitStatus ==
    script = PAIRING =>
        /\ (pc # "done" => exitStatus = {})
        /\ (pc = "done" =>
              /\ exitStatus \in {{0}, {1}, {130}}
              /\ (fault.exc = "KeyboardInterrupt" <=> exitStatus = {130})
              /\ (verdict \in {"pass", "pass-with-warnings"} => exitStatus = {0})
              /\ (verdict = "fail" => exitStatus = {1})
              /\ (IsException(fault.exc) => exitStatus = {1}))

\* C2 witness: an interrupt inside the advertisement probe ended the run
\* with 130.
C2_Witness ==
    /\ script = PAIRING /\ pc = "done"
    /\ fault = [exc |-> "KeyboardInterrupt", where |-> "mDNS Advertisement"]
    /\ exitStatus = {130}

\* C3: no fault of the underlying mechanism leaves a probe function of
\* either script as an exception.
C3_NoFaultEscapesProbe ==
    ~(fault.where \in ProbeFunctions /\ IsException(fault.exc))

\* C4: the advertisement probe of test-hap-pairing.py returns True only if
\* a pattern instance was seen reachable at port 51826; when it returned
\* without that, the verdict is "fail".
C4_PassOnlyIfPortConfirmed ==
    (script = PAIRING /\ "mDNS Advertisement" \in recorded) =>
        /\ (results["mDNS Advertisement"] => portConfirmed)
        /\ (~portConfirmed /\ verdict # "none" => verdict = "fail")

\* C5: test_hap_discovery_endpoint returns True if and only if the GET was
\* answered with status 401 or 470.
C5_ChallengeIff401or470 ==
    (script = PAIRING /\ input.probe = "HAP Discovery"
                      /\ "HAP Discovery" \in recorded) =>
        (results["HAP Discovery"]
            <=> (input.env.kind = "response" /\ input.env.status \in {401, 470}))

\* C5 witness: the probe has passed on a 470.
C5_Witness ==
    /\ input.probe = "HAP Discovery"
    /\ "HAP Discovery" \in recorded
    /\ input.env.kind = "response" /\ input.env.status = 470
    /\ results["HAP Discovery"]

\* C6: test_web_api returns True if and only if the decoded response is an
\* object with the field qrCode and one of pairingCode, setupCode, pinCode.
C6_ShapeIffFields ==
    (script = PAIRING /\ input.probe = "Web API" /\ "Web API" \in recorded) =>
        (results["Web API"]
            <=> /\ input.env.kind = "object"
                /\ "qrCode" \in input.env.names
                /\ input.env.names \cap {"pairingCode", "setupCode", "pinCode"} # {})

\* C7: whenever a probe has returned, every socket it opened is closed and
\* every subprocess it spawned has been terminated.
C7_ResourcesScoped ==
    (fault = NoFault /\ ~InsideProbe) => (openSockets = 0 /\ runningProcs = 0)

\* C8: every browser an advertisement probe launches is the one of the host
\* platform (dns-sd on darwin, avahi-browse elsewhere), so no probe fails on
\* the absence of the other platform's browser.
C8_StrategyFromPlatform ==
    \A b \in launched : b = PlatformBrowser

\* C9: when test-mdns.py exits, its status is 0 or 1; it is 0 if and only
\* if test_direct_port returned True and the strategy of the platform then
\* returned True; when test_direct_port returned False the status is 1 and
\* no browser was launched.  (A run that SIGINT kills has no exit status.)
C9_MdnsExit ==
    (script = MDNS /\ pc = "done") =>
        /\ exitStatus \in {{0}, {1}}
        /\ (exitStatus = {0} <=> (direct_port = "True" /\ success = "True"))
        /\ (exitStatus = {0} =>
              /\ Len(calls) = 2 /\ calls[1] = "test_direct_port"
              /\ launched = {PlatformBrowser})
        /\ (direct_port = "False" =>
              /\ exitStatus = {1}
              /\ launched = {}
              /\ calls = <<"test_direct_port">>)

\* C9 witness: the port probe passed, dns-sd reported success, exit 0.
C9_Witness ==
    /\ script = MDNS /\ pc = "done"
    /\ direct_port = "True" /\ success = "True"
    /\ launched = {"dns-sd"}
    /\ exitStatus = {0}

\* C10: run_all_tests invokes the probes in the order TCP Connection, HAP
\* Discovery, Web API, mDNS Advertisement, none twice; it decides only when
\* all four have been invoked and their results recorded; and a run of it
\* that no interrupt ended has invoked all four.
C10_FixedOrder ==
    script = PAIRING =>
        /\ IsPrefix(calls, ProbeNames)
        /\ (verdict # "none" => calls = ProbeNames /\ recorded = ProbeNameSet)
        /\ (pc = "done" /\ fault.exc # "KeyboardInterrupt" /\ fault.where # "main"
                => calls = ProbeNames)

\* C10 witness: the first probe failed and the other three still ran
\* before the verdict.
C10_Witness ==
    /\ script = PAIRING /\ verdict = "fail"
    /\ ~results["TCP Connection"]
    /\ calls = ProbeNames
    /\ recorded = ProbeNameSet

====
